---------------------------- MODULE Spec2Model ----------------------------
(***************************************************************************)
(* Table-driven Catmull-Clark refinement kernels of                        *)
(* FarCatmarkSubdivisionTables (opensubdiv/far/catmarkSubdivisionTables.h).*)
(*                                                                         *)
(* The vertex buffer vsrc is one array of vertex records.  A record has a  *)
(* primary attribute (pos) and a varying attribute (var); both are vectors *)
(* over Basis, so that with the control vertices at the unit vectors a     *)
(* record is the list of the weights it gives to each control vertex.      *)
(* Floats are modelled as exact rationals <<num, den>>, together with the  *)
(* two IEEE values a division by zero brings in (Inf = 1/0, NaN = 0/0).    *)
(***************************************************************************)
EXTENDS Integers, Sequences, FiniteSets, TLC

(***************************************************************************)
(* Bounds of the model.                                                    *)
(***************************************************************************)
NumSrc == 4
NumDst == 2
MaxValence == 4
SDen == 4
MaxSeq == 3
NumWorkers == 2

(***************************************************************************)
(* Float arithmetic: rationals in lowest terms, Inf and NaN.               *)
(***************************************************************************)
Abs(x) == IF x < 0 THEN -x ELSE x

RECURSIVE GCD(_, _)
GCD(a, b) == IF b = 0 THEN a ELSE GCD(b, a % b)

R(n, d) ==
    IF n = 0 THEN <<0, 1>>
    ELSE LET g == GCD(Abs(n), Abs(d))
             s == IF d < 0 THEN -1 ELSE 1
         IN  <<s * (n \div g), s * (d \div g)>>

Zero == <<0, 1>>
One == <<1, 1>>
Half == <<1, 2>>

NaN == <<0, 0>>
Inf == <<1, 0>>
IsNum(x) == x[2] # 0

FAdd(x, y) ==
    IF x = NaN \/ y = NaN THEN NaN
    ELSE IF x = Inf \/ y = Inf THEN Inf
    ELSE R(x[1] * y[2] + y[1] * x[2], x[2] * y[2])

FMul(x, y) ==
    IF x = NaN \/ y = NaN THEN NaN
    ELSE IF x = Inf THEN (IF y = Zero THEN NaN ELSE Inf)
    ELSE IF y = Inf THEN (IF x = Zero THEN NaN ELSE Inf)
    ELSE R(x[1] * y[1], x[2] * y[2])

FSub(x, y) == FAdd(x, FMul(R(-1, 1), y))

\* 1.0f / d for an int d: a division by zero gives an infinity.
FInv(d) == IF d = 0 THEN Inf ELSE R(1, d)

FLess(x, y) == IsNum(x) /\ IsNum(y) /\ x[1] * y[2] < y[1] * x[2]

(***************************************************************************)
(* Vertex records (the template parameter U) and the buffer layout.        *)
(***************************************************************************)
Basis == 0 .. NumSrc - 1

VZero == [k \in Basis |-> Zero]
VAdd(u, v) == [k \in Basis |-> FAdd(u[k], v[k])]
VScale(u, w) == [k \in Basis |-> FMul(u[k], w)]
FaceBase == NumSrc
EdgeBase == NumSrc + NumDst
VertBase == NumSrc + 2 * NumDst
NumVerts == NumSrc + 3 * NumDst
Verts == 0 .. NumVerts - 1

\* U::Clear(): the record is reset to zero.
Clear(rec) == [pos |-> VZero, var |-> VZero]

\* U::AddWithWeight(src, weight): weighted accumulation of the primary attribute.
AddWithWeight(rec, src, weight) ==
    [rec EXCEPT !.pos = VAdd(@, VScale(src.pos, weight))]

\* U::AddVaryingWithWeight(src, weight): weighted accumulation of the varying
\* attribute.
AddVaryingWithWeight(rec, src, weight) ==
    [rec EXCEPT !.var = VAdd(@, VScale(src.var, weight))]

VARIABLES
    F_IT, F_ITa, E_IT, E_W, V_IT, V_ITa, V_W,  \* the seven tables
    vsrc,      \* the vertex buffer
    pre,       \* the vertex buffer as the last kernel invocation found it
    hist,      \* the kernel invocations made so far, in order
    reads,     \* per destination, the buffer indices the last invocation read
    wsum,      \* per record, the primary weights added since its last Clear
    vsum,      \* per record, the varying weights added since its last Clear
    nclear,    \* per record, how many times it was cleared
    par,       \* the invocation the workers share (parallel runs)
    wpos,      \* per worker, the next destination of its sub-range
    writers    \* per record, the workers that wrote it

tables == <<F_IT, F_ITa, E_IT, E_W, V_IT, V_ITa, V_W>>
ghost == <<pre, hist, reads, wsum, vsum, nclear>>
workers == <<par, wpos, writers>>
vars == <<tables, vsrc, ghost, workers>>

(***************************************************************************)
(* The kernels.  The body of each loop is the list of the record            *)
(* operations it performs on *vdst, in program order.                      *)
(***************************************************************************)
OpClear == [k |-> "Clear"]
OpAdd(idx, w) == [k |-> "AddWithWeight", src |-> idx, w |-> w]
OpAddVarying(idx, w) == [k |-> "AddVaryingWithWeight", src |-> idx, w |-> w]

\* One record operation on destination d, with the bookkeeping of what was
\* read, cleared and added.
ApplyOp(st, d, op) ==
    CASE op.k = "Clear" ->
            [st EXCEPT !.buf[d] = Clear(@), !.nclear[d] = @ + 1,
                       !.wsum[d] = Zero, !.vsum[d] = Zero]
      [] op.k = "AddWithWeight" ->
            [st EXCEPT !.buf[d] = AddWithWeight(@, st.buf[op.src], op.w),
                       !.reads[d] = @ \cup {op.src},
                       !.wsum[d] = FAdd(@, op.w)]
      [] op.k = "AddVaryingWithWeight" ->
            [st EXCEPT !.buf[d] = AddVaryingWithWeight(@, st.buf[op.src], op.w),
                       !.reads[d] = @ \cup {op.src},
                       !.vsum[d] = FAdd(@, op.w)]

RECURSIVE ApplyOps(_, _, _, _)
ApplyOps(st, d, ops, k) ==
    IF k > Len(ops) THEN st
    ELSE ApplyOps(ApplyOp(st, d, ops[k]), d, ops, k + 1)

\* Mutant: the destination is not cleared first.
FacePointOpsNoClear(i) ==
    LET h == F_ITa[2 * i]
        n == F_ITa[2 * i + 1]
        weight == FInv(n)
    IN  [k \in 1 .. 2 * n |->
            IF k % 2 = 1 THEN OpAdd(F_IT[h + (k - 1) \div 2], weight)
            ELSE OpAddVarying(F_IT[h + (k - 2) \div 2], weight)]

\* computeFacePoints, the body of the loop for table index i.
FacePointOps(i) ==
    LET h == F_ITa[2 * i]
        n == F_ITa[2 * i + 1]
        weight == FInv(n)
    IN  <<OpClear>> \o
        [k \in 1 .. 2 * n |->
            IF k % 2 = 1 THEN OpAdd(F_IT[h + (k - 1) \div 2], weight)
            ELSE OpAddVarying(F_IT[h + (k - 2) \div 2], weight)]

\* Mutant: the varying attribute is weighted like the primary one.
EdgePointOpsVaryingByVertWeight(i) ==
    LET eidx0 == E_IT[4 * i + 0]
        eidx1 == E_IT[4 * i + 1]
        eidx2 == E_IT[4 * i + 2]
        eidx3 == E_IT[4 * i + 3]
        vertWeight == E_W[i * 2 + 0]
        faceWeight == E_W[i * 2 + 1]
    IN  <<OpClear, OpAdd(eidx0, vertWeight), OpAdd(eidx1, vertWeight)>> \o
        (IF eidx2 # -1
         THEN <<OpAdd(eidx2, faceWeight), OpAdd(eidx3, faceWeight)>>
         ELSE <<>>) \o
        <<OpAddVarying(eidx0, vertWeight), OpAddVarying(eidx1, vertWeight)>>

\* Mutant: the destination is not cleared first.
EdgePointOpsNoClear(i) ==
    LET eidx0 == E_IT[4 * i + 0]
        eidx1 == E_IT[4 * i + 1]
        eidx2 == E_IT[4 * i + 2]
        eidx3 == E_IT[4 * i + 3]
        vertWeight == E_W[i * 2 + 0]
        faceWeight == E_W[i * 2 + 1]
    IN  <<OpAdd(eidx0, vertWeight), OpAdd(eidx1, vertWeight)>> \o
        (IF eidx2 # -1
         THEN <<OpAdd(eidx2, faceWeight), OpAdd(eidx3, faceWeight)>>
         ELSE <<>>) \o
        <<OpAddVarying(eidx0, Half), OpAddVarying(eidx1, Half)>>

\* computeEdgePoints, the body of the loop for table index i.
EdgePointOps(i) ==
    LET eidx0 == E_IT[4 * i + 0]
        eidx1 == E_IT[4 * i + 1]
        eidx2 == E_IT[4 * i + 2]
        eidx3 == E_IT[4 * i + 3]
        vertWeight == E_W[i * 2 + 0]
        faceWeight == E_W[i * 2 + 1]
    IN  <<OpClear, OpAdd(eidx0, vertWeight), OpAdd(eidx1, vertWeight)>> \o
        (IF eidx2 # -1
         THEN <<OpAdd(eidx2, faceWeight), OpAdd(eidx3, faceWeight)>>
         ELSE <<>>) \o
        <<OpAddVarying(eidx0, Half), OpAddVarying(eidx1, Half)>>

\* computeVertexPointsA: the weight the pass starts from.
PassWeight(pass, i) == IF pass THEN V_W[i] ELSE FSub(One, V_W[i])

\* Mutant: a fractional weight is not inverted.
InvertWeightNever(weight, n) == weight

\* Mutant: the inversion tests the valence against the -1 sentinel.
InvertWeightUnlessSentinel(weight, n) ==
    IF FLess(Zero, weight) /\ FLess(weight, One) /\ n # -1
    THEN FSub(One, weight) ELSE weight

\* computeVertexPointsA: the inversion of a fractional weight.
InvertWeight(weight, n) ==
    IF FLess(Zero, weight) /\ FLess(weight, One) /\ n > 0
    THEN FSub(One, weight) ELSE weight

\* Mutant: the -1 valence selects k_Corner in both passes.
IsCornerInBothPasses(pass, n, eidx0) == eidx0 = -1 \/ n = -1

\* computeVertexPointsA: the k_Corner test.
IsCorner(pass, n, eidx0) == eidx0 = -1 \/ (pass = FALSE /\ n = -1)

\* computeVertexPointsA, the body of the loop for table index i.
VertexPointAOps(pass, i) ==
    LET n == V_ITa[5 * i + 1]
        p == V_ITa[5 * i + 2]
        eidx0 == V_ITa[5 * i + 3]
        eidx1 == V_ITa[5 * i + 4]
        weight == InvertWeight(PassWeight(pass, i), n)
    IN  (IF ~pass THEN <<OpClear>> ELSE <<>>) \o
        (IF IsCorner(pass, n, eidx0)
         THEN <<OpAdd(p, weight)>>
         ELSE <<OpAdd(p, FMul(weight, R(3, 4))),
                OpAdd(eidx0, FMul(weight, R(1, 8))),
                OpAdd(eidx1, FMul(weight, R(1, 8)))>>) \o
        <<OpAddVarying(p, One)>>

\* computeVertexPointsB: wp and wv for valence n.
SmoothWp(n) == FInv(n * n)
SmoothWv(n) == FMul(R((n - 2) * n, 1), SmoothWp(n))

\* Mutant: the destination is not cleared first.
VertexPointBOpsNoClear(i) ==
    LET h == V_ITa[5 * i]
        n == V_ITa[5 * i + 1]
        p == V_ITa[5 * i + 2]
        weight == V_W[i]
        wp == SmoothWp(n)
        wv == SmoothWv(n)
    IN  <<OpAdd(p, FMul(weight, wv))>> \o
        [k \in 1 .. 2 * n |->
            OpAdd(V_IT[h + (k - 1)], FMul(weight, wp))] \o
        <<OpAddVarying(p, One)>>

\* Mutant: the sharpness weight is inverted, as kernel A does in its first pass.
VertexPointBOpsInverted(i) ==
    LET h == V_ITa[5 * i]
        n == V_ITa[5 * i + 1]
        p == V_ITa[5 * i + 2]
        weight == FSub(One, V_W[i])
        wp == SmoothWp(n)
        wv == SmoothWv(n)
    IN  <<OpClear, OpAdd(p, FMul(weight, wv))>> \o
        [k \in 1 .. 2 * n |->
            OpAdd(V_IT[h + (k - 1)], FMul(weight, wp))] \o
        <<OpAddVarying(p, One)>>

\* computeVertexPointsB, the body of the loop for table index i.
VertexPointBOps(i) ==
    LET h == V_ITa[5 * i]
        n == V_ITa[5 * i + 1]
        p == V_ITa[5 * i + 2]
        weight == V_W[i]
        wp == SmoothWp(n)
        wv == SmoothWv(n)
    IN  <<OpClear, OpAdd(p, FMul(weight, wv))>> \o
        [k \in 1 .. 2 * n |->
            OpAdd(V_IT[h + (k - 1)], FMul(weight, wp))] \o
        <<OpAddVarying(p, One)>>

BodyOps(kernel, pass, i) ==
    CASE kernel = "face" -> FacePointOps(i)
      [] kernel = "edge" -> EdgePointOps(i)
      [] kernel = "vertexA" -> VertexPointAOps(pass, i)
      [] kernel = "vertexB" -> VertexPointBOps(i)

\* U * vdst = vsrc + offset + start
\* Mutant: vdst starts at the offset, whatever the start of the range.
DstStartAtOffset(offset, start) == offset

\* U * vdst = vsrc + offset + start;
DstStart(offset, start) == offset + start

\* for (int i=start+tableOffset; i<end+tableOffset; ++i, ++vdst ) { body }
RECURSIVE KernelLoop(_, _, _, _, _, _)
KernelLoop(st, kernel, pass, i, stop, vdst) ==
    IF i < stop
    THEN KernelLoop(ApplyOps(st, vdst, BodyOps(kernel, pass, i), 1),
                    kernel, pass, i + 1, stop, vdst + 1)
    ELSE st

RunKernel(st, kernel, pass, offset, tableOffset, start, end) ==
    KernelLoop(st, kernel, pass, start + tableOffset, end + tableOffset,
               DstStart(offset, start))

computeFacePoints(st, offset, tableOffset, start, end) ==
    RunKernel(st, "face", FALSE, offset, tableOffset, start, end)

computeEdgePoints(st, offset, tableOffset, start, end) ==
    RunKernel(st, "edge", FALSE, offset, tableOffset, start, end)

computeVertexPointsA(st, offset, pass, tableOffset, start, end) ==
    RunKernel(st, "vertexA", pass, offset, tableOffset, start, end)

computeVertexPointsB(st, offset, tableOffset, start, end) ==
    RunKernel(st, "vertexB", FALSE, offset, tableOffset, start, end)


(***************************************************************************)
(* The tables the factory hands over.  Each family of tables is generated  *)
(* from a seed; entry i of a table differs from entry 0 so that a range    *)
(* holds entries of several shapes.  Every source index lies in an earlier *)
(* segment of the buffer than the one the kernel writes.                   *)
(***************************************************************************)
NumEntries == NumDst
FITLen == MaxValence + NumDst
VITLen == 2 * MaxValence + NumDst

ValenceSeq == <<-1, 0>> \o [k \in 1 .. MaxValence - 1 |-> k + 1]
EdgeWeights == << <<Half, Zero>>, <<R(1, 4), R(1, 4)>>,
                  <<R(3, 8), R(1, 8)>>, <<Half, R(1, 4)>> >>

FaceSeeds == [h : 0 .. 1, n : 3 .. MaxValence]
EdgeSeeds == [shape : 0 .. 2, w : 0 .. Len(EdgeWeights) - 1, a : 0 .. 1]
VertexSeeds == [n : 0 .. Len(ValenceSeq) - 1, crease : 0 .. 2, s : 0 .. SDen]

DefaultFace == [h |-> 0, n |-> MaxValence]
DefaultEdge == [shape |-> 0, w |-> 1, a |-> 0]
DefaultVertex == [n |-> 3, crease |-> 1, s |-> 1]

Make_F_IT == [k \in 0 .. FITLen - 1 |-> k % NumSrc]

Make_F_ITa(fs) ==
    [k \in 0 .. 2 * NumEntries - 1 |->
        LET i == k \div 2
        IN  IF k % 2 = 0 THEN (fs.h + i) % (NumDst + 1)
            ELSE 3 + ((fs.n - 3 + i) % (MaxValence - 2))]

Make_E_IT(es) ==
    [k \in 0 .. 4 * NumEntries - 1 |->
        LET i == k \div 4
            shape == (es.shape + i) % 3
        IN  CASE k % 4 = 0 -> (es.a + i) % NumSrc
              [] k % 4 = 1 -> (es.a + i + 1) % NumSrc
              [] k % 4 = 2 -> IF shape = 0 THEN FaceBase + (i % NumDst) ELSE -1
              [] k % 4 = 3 -> IF shape = 1 THEN -1
                              ELSE FaceBase + ((i + 1) % NumDst)]

Make_E_W(es) ==
    [k \in 0 .. 2 * NumEntries - 1 |->
        EdgeWeights[((es.w + k \div 2) % Len(EdgeWeights)) + 1][(k % 2) + 1]]

Make_V_IT == [k \in 0 .. VITLen - 1 |-> k % VertBase]

Make_V_ITa(vs) ==
    [k \in 0 .. 5 * NumEntries - 1 |->
        LET i == k \div 5
            p == (vs.n + i) % NumSrc
        IN  CASE k % 5 = 0 -> (vs.crease + i) % (NumDst + 1)
              [] k % 5 = 1 -> ValenceSeq[((vs.n + i) % Len(ValenceSeq)) + 1]
              [] k % 5 = 2 -> p
              [] k % 5 = 3 -> IF vs.crease = 1 THEN (p + 1) % NumSrc ELSE -1
              [] k % 5 = 4 -> IF vs.crease = 0 THEN -1 ELSE (p + 2) % NumSrc]

Make_V_W(vs) == [i \in 0 .. NumEntries - 1 |-> R((vs.s + i) % (SDen + 1), SDen)]

\* The control vertices are the unit vectors; the rest of the buffer holds
\* whatever it held before.
InitRecord(d) ==
    IF d < NumSrc
    THEN [pos |-> [k \in Basis |-> IF k = d THEN One ELSE Zero],
          var |-> [k \in Basis |-> IF k = (d + 1) % NumSrc THEN One ELSE Zero]]
    ELSE [pos |-> [k \in Basis |-> R(d + k + 1, 1)],
          var |-> [k \in Basis |-> R(2 * d + k + 2, 1)]]

Setup(fs, es, vs) ==
    /\ F_IT = Make_F_IT
    /\ F_ITa = Make_F_ITa(fs)
    /\ E_IT = Make_E_IT(es)
    /\ E_W = Make_E_W(es)
    /\ V_IT = Make_V_IT
    /\ V_ITa = Make_V_ITa(vs)
    /\ V_W = Make_V_W(vs)
    /\ vsrc = [d \in Verts |-> InitRecord(d)]
    /\ pre = [d \in Verts |-> InitRecord(d)]
    /\ hist = <<>>
    /\ reads = [d \in Verts |-> {}]
    /\ wsum = [d \in Verts |-> Zero]
    /\ vsum = [d \in Verts |-> Zero]
    /\ nclear = [d \in Verts |-> 0]

InitTables ==
    \/ \E fs \in FaceSeeds : Setup(fs, DefaultEdge, DefaultVertex)
    \/ \E es \in EdgeSeeds : Setup(DefaultFace, es, DefaultVertex)
    \/ \E vs \in VertexSeeds : Setup(DefaultFace, DefaultEdge, vs)

NoWorkers ==
    /\ par = [kernel |-> "none"]
    /\ wpos = <<>>
    /\ writers = [d \in Verts |-> {}]

Init == InitTables /\ NoWorkers

(***************************************************************************)
(* Kernel invocations.                                                     *)
(***************************************************************************)
Kernels == {"face", "edge", "vertexA", "vertexB"}

SegBase(kernel) ==
    CASE kernel = "face" -> FaceBase
      [] kernel = "edge" -> EdgeBase
      [] kernel = "vertexA" -> VertBase
      [] kernel = "vertexB" -> VertBase

\* The arguments a caller may pass: the destination range lies in the
\* segment of the kernel and the table range in the table.
Args(kernel) ==
    {c \in [offset : 0 .. NumVerts, tableOffset : 0 .. NumDst,
            start : 0 .. NumDst, end : 0 .. NumDst] :
        IF c.start < c.end
        THEN /\ c.offset + c.start >= SegBase(kernel)
             /\ c.offset + c.end <= SegBase(kernel) + NumDst
             /\ c.end + c.tableOffset <= NumEntries
        ELSE c.offset = SegBase(kernel) /\ c.tableOffset = 0}

\* The whole batch of a level.
FullBatch(kernel) ==
    [offset |-> SegBase(kernel), tableOffset |-> 0, start |-> 0, end |-> NumDst]

Before ==
    [buf |-> vsrc, reads |-> [d \in Verts |-> {}],
     wsum |-> wsum, vsum |-> vsum, nclear |-> nclear]

Invoke(kernel, pass, c) ==
    CASE kernel = "face" ->
            computeFacePoints(Before, c.offset, c.tableOffset, c.start, c.end)
      [] kernel = "edge" ->
            computeEdgePoints(Before, c.offset, c.tableOffset, c.start, c.end)
      [] kernel = "vertexA" ->
            computeVertexPointsA(Before, c.offset, pass, c.tableOffset,
                                 c.start, c.end)
      [] kernel = "vertexB" ->
            computeVertexPointsB(Before, c.offset, c.tableOffset, c.start, c.end)

Call(kernel, pass, c) ==
    [kernel |-> kernel, pass |-> pass, offset |-> c.offset,
     tableOffset |-> c.tableOffset, start |-> c.start, end |-> c.end]

Run(kernel, pass, c) ==
    \E st \in {Invoke(kernel, pass, c)} :
        /\ vsrc' = st.buf
        /\ reads' = st.reads
        /\ wsum' = st.wsum
        /\ vsum' = st.vsum
        /\ nclear' = st.nclear
        /\ pre' = vsrc
        /\ hist' = Append(hist, Call(kernel, pass, c))
        /\ UNCHANGED <<tables, workers>>

FacePoints(c) == Run("face", FALSE, c)
EdgePoints(c) == Run("edge", FALSE, c)
VertexPointsA(pass, c) == Run("vertexA", pass, c)
VertexPointsB(c) == Run("vertexB", FALSE, c)

(***************************************************************************)
(* Spec: the level driver invokes the kernels over the whole batch of the   *)
(* level, in any order, MaxSeq times.                                      *)
(***************************************************************************)
DriverFace == Len(hist) < MaxSeq /\ FacePoints(FullBatch("face"))
DriverEdge == Len(hist) < MaxSeq /\ EdgePoints(FullBatch("edge"))
DriverVertexA1 == Len(hist) < MaxSeq /\ VertexPointsA(FALSE, FullBatch("vertexA"))
DriverVertexA2 == Len(hist) < MaxSeq /\ VertexPointsA(TRUE, FullBatch("vertexA"))
DriverVertexB == Len(hist) < MaxSeq /\ VertexPointsB(FullBatch("vertexB"))

Next ==
    \/ DriverFace
    \/ DriverEdge
    \/ DriverVertexA1
    \/ DriverVertexA2
    \/ DriverVertexB

Spec == Init /\ [][Next]_vars

(***************************************************************************)
(* SpecCall: one invocation of one kernel, with any arguments.             *)
(***************************************************************************)
CallFace == hist = <<>> /\ \E c \in Args("face") : FacePoints(c)
CallEdge == hist = <<>> /\ \E c \in Args("edge") : EdgePoints(c)
CallVertexA ==
    hist = <<>> /\ \E pass \in BOOLEAN, c \in Args("vertexA") : VertexPointsA(pass, c)
CallVertexB == hist = <<>> /\ \E c \in Args("vertexB") : VertexPointsB(c)

NextCall ==
    \/ CallFace
    \/ CallEdge
    \/ CallVertexA
    \/ CallVertexB

SpecCall == Init /\ [][NextCall]_vars

(***************************************************************************)
(* SpecPar: one invocation over [start, end) is split into NumWorkers      *)
(* sub-ranges; each worker runs the kernel on its own sub-range, and the   *)
(* loop iterations of the workers interleave.                              *)
(***************************************************************************)
Workers == 1 .. NumWorkers

\* The ways to cut [0, NumDst) into NumWorkers consecutive sub-ranges.
Splits ==
    {b \in [0 .. NumWorkers -> 0 .. NumDst] :
        /\ b[0] = 0
        /\ b[NumWorkers] = NumDst
        /\ \A w \in Workers : b[w - 1] <= b[w]}

ParInvocations ==
    {[kernel |-> k, pass |-> ps, split |-> b] :
        k \in Kernels, ps \in BOOLEAN, b \in Splits}

InitPar ==
    /\ InitTables
    /\ par \in {q \in ParInvocations : q.pass => q.kernel = "vertexA"}
    /\ wpos = [w \in Workers |-> par.split[w - 1]]
    /\ writers = [d \in Verts |-> {}]

\* One iteration of worker w's loop: the body for its next index, on its
\* vdst, which started at vsrc + offset + start of its sub-range.
WorkerStep(w) ==
    /\ wpos[w] < par.split[w]
    /\ LET c == FullBatch(par.kernel)
           j == wpos[w]
           vdst == DstStart(c.offset, par.split[w - 1]) + (j - par.split[w - 1])
       IN  \E st \in {KernelLoop([Before EXCEPT !.reads = reads],
                                 par.kernel, par.pass,
                                 j + c.tableOffset, j + 1 + c.tableOffset, vdst)} :
               /\ vsrc' = st.buf
               /\ reads' = st.reads
               /\ wsum' = st.wsum
               /\ vsum' = st.vsum
               /\ nclear' = st.nclear
               /\ writers' = [writers EXCEPT ![vdst] = @ \cup {w}]
    /\ wpos' = [wpos EXCEPT ![w] = @ + 1]
    /\ UNCHANGED <<tables, pre, hist, par>>

NextPar == \E w \in Workers : WorkerStep(w)

SpecPar == InitPar /\ [][NextPar]_vars

(***************************************************************************)
(* What the claims are stated with.                                        *)
(***************************************************************************)
Called == Len(hist) > 0
LastCall == hist[Len(hist)]

\* The positions j of a call's range; position j uses table entry
\* j + tableOffset and writes record offset + j.
Range(c) == c.start .. c.end - 1
Entry(c, j) == j + c.tableOffset
Dst(c, j) == c.offset + j

\* The weighted sum of the attribute attr of the records buf[idx], over the
\* terms <<idx, w>>.
RECURSIVE Comb(_, _, _, _)
Comb(buf, attr, terms, k) ==
    IF k > Len(terms) THEN VZero
    ELSE VAdd(VScale(buf[terms[k][1]][attr], terms[k][2]),
              Comb(buf, attr, terms, k + 1))

IsControl(idx) == idx \in 0 .. NumSrc - 1

(***************************************************************************)
(* C1: computeFacePoints leaves in every destination of its range the      *)
(* average of the n source records of the face, each with weight 1/n, in   *)
(* the primary and in the varying attribute, whatever the destination held *)
(* before; the primary weights sum to 1, and the weight given to control   *)
(* vertex k is (the number of corners that are k) / n, so that a face with *)
(* corners A, B, C, D gets (A+B+C+D)/4.                                    *)
(***************************************************************************)
C1_FacePointIsAverage ==
    (Called /\ LastCall.kernel = "face") =>
        \A j \in Range(LastCall) :
            LET d == Dst(LastCall, j)
                h == F_ITa[2 * Entry(LastCall, j)]
                n == F_ITa[2 * Entry(LastCall, j) + 1]
                corners == [jj \in 1 .. n |-> <<F_IT[h + jj - 1], R(1, n)>>]
            IN  n >= 3 =>
                    /\ vsrc[d].pos = Comb(pre, "pos", corners, 1)
                    /\ vsrc[d].var = Comb(pre, "var", corners, 1)
                    /\ wsum[d] = One
                    /\ vsum[d] = One
                    /\ (\A jj \in 1 .. n : IsControl(corners[jj][1])) =>
                           \A k \in Basis :
                               vsrc[d].pos[k] =
                                   R(Cardinality({jj \in 1 .. n : corners[jj][1] = k}), n)

\* A face of valence 4 with four different corners was averaged into a
\* destination that held something else.
C1_Witness ==
    /\ Called /\ LastCall.kernel = "face"
    /\ \E j \in Range(LastCall) :
           LET d == Dst(LastCall, j)
               h == F_ITa[2 * Entry(LastCall, j)]
               n == F_ITa[2 * Entry(LastCall, j) + 1]
           IN  /\ n = 4
               /\ Cardinality({F_IT[h + jj] : jj \in 0 .. n - 1}) = 4
               /\ pre[d].pos # VZero
               /\ vsrc[d].pos =
                      [k \in Basis |->
                          IF k \in {F_IT[h + jj] : jj \in 0 .. n - 1}
                          THEN R(1, 4) ELSE Zero]

(***************************************************************************)
(* C2: computeEdgePoints: with e2 = -1 the primary attribute is            *)
(* wVertex*(e0+e1), only the records e0 and e1 are read, and the primary   *)
(* weights sum to 2*wVertex (to 1 when wVertex = 0.5); with e2 # -1 the    *)
(* primary attribute is wVertex*(e0+e1) + wFace*(e2+e3).  In both cases    *)
(* the varying attribute is 0.5*e0 + 0.5*e1.                               *)
(***************************************************************************)
C2_EdgePointRule ==
    (Called /\ LastCall.kernel = "edge") =>
        \A j \in Range(LastCall) :
            LET d == Dst(LastCall, j)
                i == Entry(LastCall, j)
                e0 == E_IT[4 * i]
                e1 == E_IT[4 * i + 1]
                e2 == E_IT[4 * i + 2]
                e3 == E_IT[4 * i + 3]
                wVertex == E_W[2 * i]
                wFace == E_W[2 * i + 1]
            IN  /\ e2 = -1 =>
                    /\ vsrc[d].pos =
                           Comb(pre, "pos", << <<e0, wVertex>>, <<e1, wVertex>> >>, 1)
                    /\ reads[d] = {e0, e1}
                    /\ wsum[d] = FMul(R(2, 1), wVertex)
                    /\ wVertex = Half => wsum[d] = One
                /\ e2 # -1 =>
                    /\ vsrc[d].pos =
                           Comb(pre, "pos", << <<e0, wVertex>>, <<e1, wVertex>>,
                                               <<e2, wFace>>, <<e3, wFace>> >>, 1)
                    /\ reads[d] = {e0, e1, e2, e3}
                /\ vsrc[d].var = Comb(pre, "var", << <<e0, Half>>, <<e1, Half>> >>, 1)

\* Both cases happened in one invocation: a boundary edge whose e3 is a
\* valid index and whose wFace is not zero, and an interior edge with
\* wVertex # 0.5.
C2_Witness ==
    /\ Called /\ LastCall.kernel = "edge"
    /\ \E j \in Range(LastCall) :
           LET i == Entry(LastCall, j)
           IN  /\ E_IT[4 * i + 2] = -1
               /\ E_IT[4 * i + 3] # -1
               /\ E_W[2 * i + 1] # Zero
    /\ \E j \in Range(LastCall) :
           LET i == Entry(LastCall, j)
           IN  E_IT[4 * i + 2] # -1 /\ E_W[2 * i] # Half

(***************************************************************************)
(* The vertex rules, as the claims state them.                             *)
(***************************************************************************)
Valence(i) == V_ITa[5 * i + 1]
Parent(i) == V_ITa[5 * i + 2]
CreaseEdge0(i) == V_ITa[5 * i + 3]
CreaseEdge1(i) == V_ITa[5 * i + 4]
Sharpness(i) == V_W[i]
Fractional(x) == FLess(Zero, x) /\ FLess(x, One)

\* The neighbour entries of vertex i: the n pairs _V_IT[h+2j], _V_IT[h+2j+1].
Neighbours(i) ==
    LET h == V_ITa[5 * i]
        n == Valence(i)
    IN  [jj \in 1 .. n |-> V_IT[h + 2 * (jj - 1)]] \o
        [jj \in 1 .. n |-> V_IT[h + 2 * (jj - 1) + 1]]

\* The smooth rule scaled by w: w*((n-2)/n)*parent + w*(1/n^2)*(the 2n
\* neighbour entries).
SmoothTerms(i, w) ==
    LET n == Valence(i)
        nb == Neighbours(i)
    IN  << <<Parent(i), FMul(w, R(n - 2, n))>> >> \o
        [k \in 1 .. Len(nb) |-> <<nb[k], FMul(w, R(1, n * n))>>]

\* The crease rule scaled by w, and the corner rule scaled by w.
CreaseTerms(i, w) ==
    << <<Parent(i), FMul(w, R(3, 4))>>,
       <<CreaseEdge0(i), FMul(w, R(1, 8))>>,
       <<CreaseEdge1(i), FMul(w, R(1, 8))>> >>
CornerTerms(i, w) == << <<Parent(i), w>> >>

\* Kernel A takes the corner rule when creaseEdge0 = -1, or in the first
\* pass when the valence is -1.
CornerCase(pass, i) ==
    CreaseEdge0(i) = -1 \/ (~pass /\ Valence(i) = -1)
RuleTerms(pass, i, w) ==
    IF CornerCase(pass, i) THEN CornerTerms(i, w) ELSE CreaseTerms(i, w)

\* The weight kernel A applies: 1-s in the first pass and s in the second,
\* replaced by 1-weight when it is fractional and the valence is positive.
EffectiveWeight(pass, i) ==
    LET start == IF pass THEN Sharpness(i) ELSE FSub(One, Sharpness(i))
    IN  IF Fractional(start) /\ Valence(i) > 0
        THEN FSub(One, start) ELSE start

\* The same, with the inversion for every valence other than -1.
EffectiveWeightUnlessSentinel(pass, i) ==
    LET start == IF pass THEN Sharpness(i) ELSE FSub(One, Sharpness(i))
    IN  IF Fractional(Sharpness(i)) /\ Valence(i) # -1
        THEN FSub(One, start) ELSE start

\* What one invocation of kernel A leaves in destination d for entry i when
\* it applies weight w: the first pass starts from zero, the second from
\* what the record held.
AfterA(pass, i, d, w) ==
    VAdd(IF pass THEN pre[d].pos ELSE VZero,
         Comb(pre, "pos", RuleTerms(pass, i, w), 1))

C9_InvertedUnlessSentinel ==
    (Called /\ LastCall.kernel = "vertexA") =>
        \A j \in Range(LastCall) :
            LET d == Dst(LastCall, j)
                i == Entry(LastCall, j)
                w == EffectiveWeightUnlessSentinel(LastCall.pass, i)
            IN  /\ nclear[d] = (IF LastCall.pass THEN 0 ELSE 1)
                /\ wsum[d] = w
                /\ vsrc[d].pos = AfterA(LastCall.pass, i, d, w)

(***************************************************************************)
(* C9 amended: the same, with the weight replaced by 1-weight exactly when *)
(* s is fractional and the valence is greater than 0 (so not for valence   *)
(* 0, nor for -1).                                                         *)
(***************************************************************************)
C9_InvertedWhenValencePositive ==
    (Called /\ LastCall.kernel = "vertexA") =>
        \A j \in Range(LastCall) :
            LET d == Dst(LastCall, j)
                i == Entry(LastCall, j)
                w == EffectiveWeight(LastCall.pass, i)
            IN  /\ nclear[d] = (IF LastCall.pass THEN 0 ELSE 1)
                /\ wsum[d] = w
                /\ vsrc[d].pos = AfterA(LastCall.pass, i, d, w)

\* Kernel A ran, in its second pass, on a vertex of valence 0 with a
\* fractional s other than 0.5 and applied s itself, next to a vertex of
\* positive valence.
C9_Witness ==
    /\ Called /\ LastCall.kernel = "vertexA" /\ LastCall.pass
    /\ \E j \in Range(LastCall) :
           /\ Valence(Entry(LastCall, j)) = 0
           /\ Fractional(Sharpness(Entry(LastCall, j)))
           /\ Sharpness(Entry(LastCall, j)) # Half
           /\ wsum[Dst(LastCall, j)] = Sharpness(Entry(LastCall, j))
    /\ \E j \in Range(LastCall) :
           /\ Valence(Entry(LastCall, j)) > 0
           /\ Fractional(Sharpness(Entry(LastCall, j)))
           /\ wsum[Dst(LastCall, j)] = FSub(One, Sharpness(Entry(LastCall, j)))

Tag(c) ==
    CASE c.kernel = "vertexA" -> (IF c.pass THEN "A2" ELSE "A1")
      [] c.kernel = "vertexB" -> "B"
      [] OTHER -> c.kernel
Tags == [k \in 1 .. Len(hist) |-> Tag(hist[k])]
VertexEntries == 0 .. NumEntries - 1
VertexPoint(i) == VertBase + i
TwoCreaseEdges(i) == CreaseEdge0(i) # -1 /\ CreaseEdge1(i) # -1

(***************************************************************************)
(* C3: after the driver sequences A first pass; A first pass, A second     *)
(* pass; B; B, A second pass, the varying attribute of every vertex-point  *)
(* equals its parent's varying attribute, with total weight 1.             *)
(***************************************************************************)
C3_VaryingEqualsParent ==
    Tags \in {<<"A1">>, <<"A1", "A2">>, <<"B">>, <<"B", "A2">>} =>
        \A i \in VertexEntries :
            /\ vsrc[VertexPoint(i)].var = vsrc[Parent(i)].var
            /\ vsum[VertexPoint(i)] = One

(***************************************************************************)
(* C4 as stated: after A first pass, B, A second pass on a vertex with     *)
(* valence n >= 3 and two crease edges, the primary weights sum to 1 for   *)
(* every s; s = 0 gives the crease rule, s = 1 the smooth rule, and a      *)
(* fractional s the blend of the two.                                      *)
(***************************************************************************)
C4_ContinuousFamily ==
    Tags = <<"A1", "B", "A2">> =>
        \A i \in VertexEntries :
            (Valence(i) >= 3 /\ TwoCreaseEdges(i)) =>
                LET d == VertexPoint(i)
                    sh == Sharpness(i)
                IN  /\ wsum[d] = One
                    /\ sh = Zero =>
                           vsrc[d].pos = Comb(vsrc, "pos", CreaseTerms(i, One), 1)
                    /\ sh = One =>
                           vsrc[d].pos = Comb(vsrc, "pos", SmoothTerms(i, One), 1)
                    /\ Fractional(sh) =>
                           vsrc[d].pos =
                               Comb(vsrc, "pos",
                                    SmoothTerms(i, sh) \o
                                    CreaseTerms(i, FSub(One, sh)), 1)

(***************************************************************************)
(* C4 amended: after A first pass, B, A second pass on such a vertex, B    *)
(* has cleared what the first pass wrote, so a fractional s gives          *)
(* s*smooth + (1-s)*crease with weights that sum to 1, but s = 0 leaves    *)
(* the zero record (weight sum 0) and s = 1 leaves smooth + crease (weight *)
(* sum 2).                                                                 *)
(***************************************************************************)
C4_BlendOnlyWhenFractional ==
    Tags = <<"A1", "B", "A2">> =>
        \A i \in VertexEntries :
            (Valence(i) >= 3 /\ TwoCreaseEdges(i)) =>
                LET d == VertexPoint(i)
                    sh == Sharpness(i)
                IN  /\ Fractional(sh) =>
                           /\ wsum[d] = One
                           /\ vsrc[d].pos =
                                  Comb(vsrc, "pos",
                                       SmoothTerms(i, sh) \o
                                       CreaseTerms(i, FSub(One, sh)), 1)
                    /\ sh = Zero =>
                           /\ wsum[d] = Zero
                           /\ vsrc[d].pos = VZero
                    /\ sh = One =>
                           /\ wsum[d] = R(2, 1)
                           /\ vsrc[d].pos =
                                  Comb(vsrc, "pos",
                                       SmoothTerms(i, One) \o
                                       CreaseTerms(i, One), 1)

\* The three invocations ran over a crease vertex of valence >= 3 with
\* s = 0 next to one with a fractional s other than 0.5.
C4_Witness ==
    /\ Tags = <<"A1", "B", "A2">>
    /\ \E i \in VertexEntries :
           /\ Valence(i) >= 3 /\ TwoCreaseEdges(i)
           /\ Sharpness(i) = Zero
           /\ vsrc[VertexPoint(i)].pos = VZero
    /\ \E i \in VertexEntries :
           /\ Valence(i) >= 3 /\ TwoCreaseEdges(i)
           /\ Fractional(Sharpness(i)) /\ Sharpness(i) # Half
           /\ wsum[VertexPoint(i)] = One

(***************************************************************************)
(* C5 as stated: invoking any kernel twice in succession with the same     *)
(* arguments leaves the vertex buffer as invoking it once does.            *)
(***************************************************************************)
Repeated ==
    /\ Len(hist) >= 2
    /\ hist[Len(hist)] = hist[Len(hist) - 1]

C5_EveryKernelIdempotent == Repeated => vsrc = pre

(***************************************************************************)
(* C5 amended: computeFacePoints, computeEdgePoints, computeVertexPointsB  *)
(* and the first pass of computeVertexPointsA are idempotent per call; the *)
(* second pass of computeVertexPointsA is not: invoked again, it adds its  *)
(* primary contribution and the parent's varying attribute once more.      *)
(***************************************************************************)
C5_IdempotentButSecondPass ==
    Repeated =>
        IF LastCall.kernel = "vertexA" /\ LastCall.pass
        THEN \A d \in Verts :
                 IF d \in {Dst(LastCall, j) : j \in Range(LastCall)}
                 THEN LET i == Entry(LastCall, d - LastCall.offset)
                      IN  /\ vsrc[d].pos =
                                 VAdd(pre[d].pos,
                                      Comb(pre, "pos",
                                           RuleTerms(TRUE, i, EffectiveWeight(TRUE, i)), 1))
                          /\ vsrc[d].var = VAdd(pre[d].var, pre[Parent(i)].var)
                          /\ vsrc[d] # pre[d]
                 ELSE vsrc[d] = pre[d]
        ELSE vsrc = pre

\* The second pass of kernel A ran twice in succession and changed the
\* buffer the second time.
C5_Witness ==
    /\ Repeated
    /\ LastCall.kernel = "vertexA" /\ LastCall.pass
    /\ vsrc # pre

(***************************************************************************)
(* C8 as stated: with B between A's two passes, or after A's second pass,  *)
(* the destination is cleared exactly once and the final primary attribute *)
(* is the sum of A's contributions and B's contributions.                  *)
(***************************************************************************)
C8_ClearedOnceAdditive ==
    Tags \in {<<"A1", "B", "A2">>, <<"A1", "A2", "B">>} =>
        \A i \in VertexEntries :
            LET d == VertexPoint(i)
            IN  /\ nclear[d] = 1
                /\ Valence(i) >= 1 =>
                       vsrc[d].pos =
                           Comb(vsrc, "pos",
                                RuleTerms(FALSE, i, EffectiveWeight(FALSE, i)) \o
                                RuleTerms(TRUE, i, EffectiveWeight(TRUE, i)) \o
                                SmoothTerms(i, Sharpness(i)), 1)

(***************************************************************************)
(* C8 amended: B always clears, so in both orderings the destination is    *)
(* cleared twice and what A wrote before B is erased: with B between A's   *)
(* passes the record ends as B's contribution plus the second pass's, with *)
(* B after A's second pass as B's contribution alone.  Only B followed by  *)
(* A's second pass clears once and keeps both kernels' contributions.      *)
(***************************************************************************)
C8_BErasesEarlierPasses ==
    \A i \in VertexEntries :
        LET d == VertexPoint(i)
            smooth == SmoothTerms(i, Sharpness(i))
            second == RuleTerms(TRUE, i, EffectiveWeight(TRUE, i))
        IN  /\ Tags = <<"A1", "B", "A2">> =>
                   /\ nclear[d] = 2
                   /\ Valence(i) >= 1 =>
                          vsrc[d].pos = Comb(vsrc, "pos", smooth \o second, 1)
            /\ Tags = <<"A1", "A2", "B">> =>
                   /\ nclear[d] = 2
                   /\ Valence(i) >= 1 =>
                          vsrc[d].pos = Comb(vsrc, "pos", smooth, 1)
            /\ Tags = <<"B", "A2">> =>
                   /\ nclear[d] = 1
                   /\ Valence(i) >= 1 =>
                          vsrc[d].pos = Comb(vsrc, "pos", smooth \o second, 1)

\* B ran between A's passes over a vertex whose first pass had written a
\* contribution that is not zero, and the record no longer holds it.
C8_Witness ==
    /\ Tags = <<"A1", "B", "A2">>
    /\ \E i \in VertexEntries :
           /\ Valence(i) >= 3
           /\ EffectiveWeight(FALSE, i) # Zero
           /\ nclear[VertexPoint(i)] = 2
           /\ vsrc[VertexPoint(i)].pos =
                  Comb(vsrc, "pos",
                       SmoothTerms(i, Sharpness(i)) \o
                       RuleTerms(TRUE, i, EffectiveWeight(TRUE, i)), 1)

(***************************************************************************)
(* C6: when no table source index of the invocation lies in its            *)
(* destination range, sub-ranges run by interleaved workers one index per  *)
(* step leave the vertex buffer the sequential loop leaves, and each       *)
(* destination index is written by exactly one worker.                     *)
(***************************************************************************)
ParCall == FullBatch(par.kernel)
ParDone == \A w \in Workers : wpos[w] = par.split[w]
ParDsts == {Dst(ParCall, j) : j \in Range(ParCall)}
SourceIndices ==
    UNION {{ops[k].src : k \in {m \in 1 .. Len(ops) : ops[m].k # "Clear"}} :
           ops \in {BodyOps(par.kernel, par.pass, Entry(ParCall, j)) :
                        j \in Range(ParCall)}}
Sequential ==
    RunKernel([buf |-> pre, reads |-> [d \in Verts |-> {}],
               wsum |-> [d \in Verts |-> Zero],
               vsum |-> [d \in Verts |-> Zero],
               nclear |-> [d \in Verts |-> 0]],
              par.kernel, par.pass, ParCall.offset, ParCall.tableOffset,
              ParCall.start, ParCall.end)

C6_ReEntrant ==
    (par.kernel \in Kernels /\ SourceIndices \cap ParDsts = {}) =>
        /\ \A d \in Verts : Cardinality(writers[d]) <= 1
        /\ \A d \in Verts \ ParDsts : writers[d] = {} /\ vsrc[d] = pre[d]
        /\ ParDone =>
               /\ vsrc = Sequential.buf
               /\ \A d \in ParDsts : Cardinality(writers[d]) = 1

\* The invocation is complete, and two workers have each written a
\* destination of it.
C6_Witness ==
    /\ par.kernel \in Kernels
    /\ ParDone
    /\ \E d \in ParDsts : writers[d] = {1}
    /\ \E d \in ParDsts : writers[d] = {2}
    /\ vsrc # pre

(***************************************************************************)
(* C11: an invocation of any kernel with (offset, tableOffset, start, end) *)
(* writes exactly the records offset+start .. offset+end-1, one per table  *)
(* entry start+tableOffset .. end+tableOffset-1, and none when             *)
(* start >= end; every other record and every table is unchanged, so the   *)
(* records it writes lie in no destination range disjoint from its own.    *)
(***************************************************************************)
DstRange(c) == {Dst(c, j) : j \in Range(c)}
Written == {d \in Verts : reads'[d] # {} \/ nclear'[d] # nclear[d]}
FrameStep ==
    hist' # hist =>
        LET c == hist'[Len(hist')]
        IN  /\ Written = DstRange(c)
            /\ Cardinality(DstRange(c)) =
                   Cardinality({Entry(c, j) : j \in Range(c)})
            /\ c.start >= c.end => Written = {}
            /\ \A d \in Verts \ DstRange(c) :
                   /\ vsrc'[d] = vsrc[d]
                   /\ wsum'[d] = wsum[d]
                   /\ vsum'[d] = vsum[d]
            /\ tables' = tables
            /\ \A k \in Kernels : \A c2 \in Args(k) :
                   DstRange(c2) \cap DstRange(c) = {} =>
                       DstRange(c2) \cap Written = {}

C11_Frame == [][FrameStep]_vars

\* A kernel ran over a range that is neither empty nor the whole batch and
\* starts after position 0, with a table offset, and changed the buffer
\* inside the range only.
C11_Witness ==
    /\ Called
    /\ LastCall.start > 0 /\ LastCall.start < LastCall.end
    /\ LastCall.tableOffset # 0 \/ LastCall.offset # SegBase(LastCall.kernel)
    /\ \E d \in DstRange(LastCall) : vsrc[d] # pre[d]
    /\ \A d \in Verts \ DstRange(LastCall) : vsrc[d] = pre[d] /\ reads[d] = {}

=============================================================================
